---- MODULE Spec2Model ----
(***************************************************************************)
(* The e-bike fare calculator of the Paris metro / e-bike comparison tool: *)
(* calculate_all_bike_costs (src/app.py) over the pricing table            *)
(* BIKE_PROVIDERS (src/config.py).                                         *)
(*                                                                         *)
(* Numbers.  Python computes in binary floating point; the model computes  *)
(* in exact rational arithmetic.  A rational is a record [num, den] in     *)
(* lowest terms with den > 0.  Money is counted in euro cents (2.99 EUR is *)
(* the integer 299), time in minutes; the trip duration is the rational    *)
(* duration_sec / 60, as get_bike_journey computes it.                     *)
(*                                                                         *)
(* None.  A Python value that may be None is a sequence of length at most  *)
(* one: None is << >> and a value v is << v >>.                            *)
(***************************************************************************)
EXTENDS Integers, Sequences, FiniteSets, TLC

(***************************************************************************)
(* Bounds of the model.                                                    *)
(***************************************************************************)
\* longest trip, in seconds: beyond the largest pass (400 min = 24000 s)
MaxDurationSec == 24300
\* most negative duration handed to the calculator, in seconds (as -MinDurationSec)
MaxNegativeSec == 120

(***************************************************************************)
(* Exact rational arithmetic.                                              *)
(***************************************************************************)
Abs(n) == IF n < 0 THEN -n ELSE n

RECURSIVE GCD(_, _)
GCD(a, b) == IF b = 0 THEN a ELSE GCD(b, a % b)

\* the rational n / d, d # 0, in lowest terms
Rat(n, d) ==
    LET g == GCD(Abs(n), Abs(d))
        s == IF d < 0 THEN -1 ELSE 1
    IN  [num |-> (s * n) \div g, den |-> (s * d) \div g]

FromInt(n) == [num |-> n, den |-> 1]

\* the least common denominator of two rationals
LCD(a, b) ==
    IF b.den = 1 \/ a.den = b.den THEN a.den
    ELSE IF a.den = 1 THEN b.den
    ELSE (a.den \div GCD(a.den, b.den)) * b.den

\* the numerator of a over the denominator L, a multiple of a.den
Over(a, L) == a.num * (L \div a.den)

RatAdd(a, b) == LET L == LCD(a, b) IN Rat(Over(a, L) + Over(b, L), L)
RatSub(a, b) == LET L == LCD(a, b) IN Rat(Over(a, L) - Over(b, L), L)
RatMul(a, b) == Rat(a.num * b.num, a.den * b.den)
RatDiv(a, b) == Rat(a.num * b.den, a.den * b.num)
RatLeq(a, b) == LET L == LCD(a, b) IN Over(a, L) <= Over(b, L)
RatLt(a, b)  == LET L == LCD(a, b) IN Over(a, L) < Over(b, L)
RatAbs(a) == [num |-> Abs(a.num), den |-> a.den]

\* math.ceil of a rational: the least integer not below it
Ceil(a) == -((-a.num) \div a.den)

(***************************************************************************)
(* Python's None and dictionary access.                                    *)
(***************************************************************************)
None == << >>
Some(v) == << v >>
IsNone(o) == o = << >>
Val(o) == o[1]

HasKey(dict, key) == key \in DOMAIN dict

(***************************************************************************)
(* The pricing table (src/config.py).  Amounts are in euro cents.          *)
(***************************************************************************)
ShippedProviders ==
    [p \in {"Voi", "Dott", "Lime", "Velib'"} |->
        CASE p = "Voi" ->
               [unlock |-> 100, per_minute |-> Some(19),
                passes |-> << [minutes |-> 30,  cost |-> 299],
                              [minutes |-> 60,  cost |-> 549],
                              [minutes |-> 120, cost |-> 1099],
                              [minutes |-> 200, cost |-> 1699],
                              [minutes |-> 400, cost |-> 3199] >>]
          [] p = "Dott" ->
               [unlock |-> 100, per_minute |-> Some(28),
                passes |-> << [minutes |-> 30,  cost |-> 399],
                              [minutes |-> 100, cost |-> 1199] >>]
          [] p = "Lime" ->
               [unlock |-> 100, per_minute |-> Some(23),
                passes |-> << [minutes |-> 30,  cost |-> 399],
                              [minutes |-> 60,  cost |-> 699],
                              [minutes |-> 200, cost |-> 2199],
                              [minutes |-> 400, cost |-> 3999] >>]
          [] p = "Velib'" ->
               [unlock |-> 0, per_minute |-> None,
                passes |-> << [name |-> "Ticket V", minutes |-> 45, cost |-> 300,
                               overage_per_30min |-> 200, type |-> "single"],
                              [name |-> "24h Pass", minutes |-> 45, cost |-> 1000,
                               trips |-> 5, overage_per_30min |-> 200,
                               type |-> "multi"] >>]]

(***************************************************************************)
(* A re-tuned table.  The table is the program's single point of tuning;   *)
(* this one keeps the shipped tariffs and adds well-formed tariffs of the  *)
(* shapes the data model allows and the shipped table does not contain:    *)
(*   Cityscoot  no per-minute rate, one time bundle;                       *)
(*   Pony       no per-minute rate and no bundles;                         *)
(*   Velib'     gains a multi-ride pass of one trip;                       *)
(*   Velo Bleu  the tariff of Velib' under another provider name.          *)
(***************************************************************************)
TunedProviders ==
    [p \in {"Voi", "Dott", "Lime", "Velib'", "Cityscoot", "Pony", "Velo Bleu"} |->
        CASE p \in {"Voi", "Dott", "Lime"} -> ShippedProviders[p]
          [] p \in {"Velib'", "Velo Bleu"} ->
               [unlock |-> 0, per_minute |-> None,
                passes |-> ShippedProviders["Velib'"].passes \o
                           << [name |-> "Day Ticket", minutes |-> 45, cost |-> 300,
                               trips |-> 1, overage_per_30min |-> 200,
                               type |-> "multi"] >>]
          [] p = "Cityscoot" ->
               [unlock |-> 0, per_minute |-> None,
                passes |-> << [minutes |-> 30, cost |-> 399] >>]
          [] p = "Pony" ->
               [unlock |-> 0, per_minute |-> None, passes |-> << >>]]

\* the keys of the tables in the order of the dictionary
ShippedKeys == << "Voi", "Dott", "Lime", "Velib'" >>
TunedKeys == << "Voi", "Dott", "Lime", "Velib'", "Velo Bleu", "Pony", "Cityscoot" >>

(***************************************************************************)
(* State.                                                                  *)
(***************************************************************************)
VARIABLES
    BIKE_PROVIDERS,     \* the pricing table the process loaded
    duration_minutes,   \* argument of the call: the trip duration, a rational
    provider,           \* argument of the call: a key of BIKE_PROVIDERS
    pc,                 \* "call" before the call, then "returned" or "raised"
    options,            \* the list the call returned (<< >> until it returns)
    error,              \* the exception the call ended in, or None
    \* the results display (src/app.py:485-651)
    all_options,        \* the quotes of all providers, each with its provider
    cheaper_count,      \* how many quotes of Voi, Dott, Lime undercut the metro
    cheapest_option,    \* the first quote of minimum cost, or None
    cheapest_providers, \* the providers with a quote at the minimum cost
    recommended_mode,   \* "bike" or "metro", or None before the display
    \* the calls of one process, one after the other
    calls,              \* how many calls the process has made
    first_results,      \* for each input called so far, what its first call gave
    earlier,            \* the duration and the quotes of an earlier, shorter trip
    \* st.session_state (src/app.py:32-40) and the map component
    origin,             \* the selected origin, or None
    destination,        \* the selected destination, or None
    last_clicked,       \* the last map click the script has handled, or None
    results,            \* what Compare Routes stored, or None
    map_data            \* the last click the map component reports, or None

\* the state of one call of the calculator
calcVars == << duration_minutes, provider, pc, options, error >>

\* the state of the results display
displayVars ==
    << all_options, cheaper_count, cheapest_option, cheapest_providers,
       recommended_mode >>

\* the history of the calls of one process
historyVars == << calls, first_results, earlier >>

\* the state of one browser session
sessionVars == << origin, destination, last_clicked, results, map_data >>

vars == << BIKE_PROVIDERS, calcVars, displayVars, historyVars, sessionVars >>

(***************************************************************************)
(* calculate_all_bike_costs, src/app.py:63-131.                            *)
(***************************************************************************)
\* an exception raised while a quote is computed
Raise(e) == [raised |-> e]
IsRaise(r) == HasKey(r, "raised")

\* get_bike_journey: "duration_min": duration_sec / 60
DurationMin(duration_sec) == Rat(duration_sec, 60)

\* PerMinuteQuote without the unlock fee
PerMinuteQuote_NoUnlock(d, pricing) ==
    [name |-> "Per-minute",
     cost |-> RatMul(d, FromInt(Val(pricing.per_minute))),
     remaining |-> None,
     remaining_type |-> None]

\* lines 74-81: the per-minute quote
PerMinuteQuote(d, pricing) ==
    [name |-> "Per-minute",
     cost |-> RatAdd(FromInt(pricing.unlock),
                     RatMul(d, FromInt(Val(pricing.per_minute)))),
     remaining |-> None,
     remaining_type |-> None]

\* OverageBlocks rounding the block count down (// in place of math.ceil)
OverageBlocks_Floor(d, pass_option) ==
    IF RatLt(FromInt(pass_option.minutes), d)
    THEN LET overage_minutes == RatSub(d, FromInt(pass_option.minutes))
             blocks == RatDiv(overage_minutes, FromInt(30))
         IN  blocks.num \div blocks.den
    ELSE 0

\* OverageBlocks counting a block as soon as the cap is reached
\* (>= in place of >, int(...) + 1 in place of math.ceil)
OverageBlocks_OffByOne(d, pass_option) ==
    IF RatLeq(FromInt(pass_option.minutes), d)
    THEN LET overage_minutes == RatSub(d, FromInt(pass_option.minutes))
             blocks == RatDiv(overage_minutes, FromInt(30))
         IN  (blocks.num \div blocks.den) + 1
    ELSE 0

\* lines 87-90: the overage blocks of a Velib' pass
OverageBlocks(d, pass_option) ==
    IF RatLt(FromInt(pass_option.minutes), d)
    THEN LET overage_minutes == RatSub(d, FromInt(pass_option.minutes))
         IN  Ceil(RatDiv(overage_minutes, FromInt(30)))
    ELSE 0

\* SingleQuote that forgets the overage
SingleQuote_NoOverage(d, pass_option) ==
    [name |-> pass_option.name,
     cost |-> FromInt(pass_option.cost),
     remaining |-> Some(FromInt(0)),
     remaining_type |-> Some("trips")]

\* lines 92-100: Ticket V, a single trip
SingleQuote(d, pass_option) ==
    [name |-> pass_option.name,
     cost |-> RatAdd(FromInt(pass_option.cost),
                     FromInt(OverageBlocks(d, pass_option)
                             * pass_option.overage_per_30min)),
     remaining |-> Some(FromInt(0)),
     remaining_type |-> Some("trips")]

\* MultiQuote charging the whole pass to the one trip
MultiQuote_FullPrice(d, pass_option) ==
    [name |-> pass_option.name,
     cost |-> RatAdd(FromInt(pass_option.cost),
                     FromInt(OverageBlocks(d, pass_option)
                             * pass_option.overage_per_30min)),
     remaining |-> Some(FromInt(pass_option.trips - 1)),
     remaining_type |-> Some("trips")]

\* MultiQuote charging no overage
MultiQuote_NoOverage(d, pass_option) ==
    [name |-> pass_option.name,
     cost |-> Rat(pass_option.cost, pass_option.trips),
     remaining |-> Some(FromInt(pass_option.trips - 1)),
     remaining_type |-> Some("trips")]

\* lines 101-110: 24h Pass, the effective cost of one trip
MultiQuote(d, pass_option) ==
    LET cost_per_trip == Rat(pass_option.cost, pass_option.trips)
    IN  [name |-> pass_option.name,
         cost |-> RatAdd(cost_per_trip,
                         FromInt(OverageBlocks(d, pass_option)
                                 * pass_option.overage_per_30min)),
         remaining |-> Some(FromInt(pass_option.trips - 1)),
         remaining_type |-> Some("trips")]

\* lines 86-110: one iteration of the Velib' loop, with the exceptions the
\* dictionary accesses and the division can raise
VelibQuote(d, pass_option) ==
    IF ~ HasKey(pass_option, "minutes") \/ ~ HasKey(pass_option, "type")
        THEN Raise("KeyError")
    ELSE IF pass_option.type = "single"
        THEN IF  \E k \in {"cost", "overage_per_30min", "name"} :
                     ~ HasKey(pass_option, k)
             THEN Raise("KeyError")
             ELSE SingleQuote(d, pass_option)
    ELSE IF \E k \in {"cost", "trips", "overage_per_30min", "name"} :
                ~ HasKey(pass_option, k)
        THEN Raise("KeyError")
    ELSE IF pass_option.trips = 0
        THEN Raise("ZeroDivisionError")
    ELSE MultiQuote(d, pass_option)

\* FitsQuote charging the whole pass instead of the minutes used
FitsQuote_NotProrated(d, pass_option) ==
    [name |-> ToString(pass_option.minutes) \o " min pass",
     cost |-> FromInt(pass_option.cost),
     remaining |-> Some(RatSub(FromInt(pass_option.minutes), d)),
     remaining_type |-> Some("minutes")]

\* FitsQuote stating its allowance in trips
FitsQuote_InTrips(d, pass_option) ==
    LET cost_per_minute == Rat(pass_option.cost, pass_option.minutes)
    IN  [name |-> ToString(pass_option.minutes) \o " min pass",
         cost |-> RatMul(d, cost_per_minute),
         remaining |-> Some(RatSub(FromInt(pass_option.minutes), d)),
         remaining_type |-> Some("trips")]

\* lines 114-118: the trip fits in the pass, the cost is prorated
FitsQuote(d, pass_option) ==
    LET cost_per_minute == Rat(pass_option.cost, pass_option.minutes)
    IN  [name |-> ToString(pass_option.minutes) \o " min pass",
         cost |-> RatMul(d, cost_per_minute),
         remaining |-> Some(RatSub(FromInt(pass_option.minutes), d)),
         remaining_type |-> Some("minutes")]

\* ExceedsQuote with the operands of the subtraction swapped
ExceedsQuote_Swapped(d, pass_option, pricing) ==
    [name |-> ToString(pass_option.minutes) \o " min pass",
     cost |-> RatAdd(FromInt(pass_option.cost),
                     RatMul(RatSub(FromInt(pass_option.minutes), d),
                            FromInt(Val(pricing.per_minute)))),
     remaining |-> Some(FromInt(0)),
     remaining_type |-> Some("minutes")]

\* ExceedsQuote charging the marginal minutes only, not the pass
ExceedsQuote_RateOnly(d, pass_option, pricing) ==
    [name |-> ToString(pass_option.minutes) \o " min pass",
     cost |-> RatMul(RatSub(d, FromInt(pass_option.minutes)),
                     FromInt(Val(pricing.per_minute))),
     remaining |-> Some(FromInt(0)),
     remaining_type |-> Some("minutes")]

\* lines 119-122: the trip exceeds the pass, the marginal minutes are charged
\* at the per-minute rate
ExceedsQuote(d, pass_option, pricing) ==
    [name |-> ToString(pass_option.minutes) \o " min pass",
     cost |-> RatAdd(FromInt(pass_option.cost),
                     RatMul(RatSub(d, FromInt(pass_option.minutes)),
                            FromInt(Val(pricing.per_minute)))),
     remaining |-> Some(FromInt(0)),
     remaining_type |-> Some("minutes")]

\* line 114: the trip fits in the pass
Fits(d, pass_option) == RatLeq(d, FromInt(pass_option.minutes))

\* lines 113-129: one iteration of the loop over the passes of Voi, Dott and
\* Lime; multiplying by a per-minute rate of None is a TypeError
TimePassQuote(d, pass_option, pricing) ==
    IF ~ HasKey(pass_option, "minutes") THEN Raise("KeyError")
    ELSE IF Fits(d, pass_option)
        THEN IF ~ HasKey(pass_option, "cost") THEN Raise("KeyError")
             ELSE IF pass_option.minutes = 0 THEN Raise("ZeroDivisionError")
             ELSE FitsQuote(d, pass_option)
    ELSE IF ~ HasKey(pass_option, "cost") THEN Raise("KeyError")
    ELSE IF IsNone(pricing.per_minute) THEN Raise("TypeError")
    ELSE ExceedsQuote(d, pass_option, pricing)

\* line 84: the branch on the provider's name
IsVelib(prov) == prov = "Velib'"

\* lines 84-129: the quote of one pass
PassQuote(d, prov, pricing, pass_option) ==
    IF IsVelib(prov) THEN VelibQuote(d, pass_option)
                     ELSE TimePassQuote(d, pass_option, pricing)

\* the outcome of a call: the list it returns, or the exception it ends in
Returns(opts) == [error |-> None, options |-> opts]
Raises(e) == [error |-> Some(e), options |-> << >>]

\* lines 86 and 113: the loops over pricing["passes"], from pass i on, each
\* appending its quote to opts; an exception ends the call
RECURSIVE PassLoop(_, _, _, _, _)
PassLoop(d, prov, pricing, i, opts) ==
    IF i > Len(pricing.passes) THEN Returns(opts)
    ELSE LET q == PassQuote(d, prov, pricing, pricing.passes[i])
         IN  IF IsRaise(q) THEN Raises(q.raised)
             ELSE PassLoop(d, prov, pricing, i + 1, Append(opts, q))

\* lines 73-81: the list after the per-minute block
PerMinuteOptions(d, pricing) ==
    IF ~ IsNone(pricing.per_minute) THEN << PerMinuteQuote(d, pricing) >>
                                    ELSE << >>

\* lines 63-131: the list of quotes, or the exception raised
calculate_all_bike_costs(d, prov) ==
    IF prov \notin DOMAIN BIKE_PROVIDERS THEN Raises("KeyError")
    ELSE LET pricing == BIKE_PROVIDERS[prov]
         IN  PassLoop(d, prov, pricing, 1, PerMinuteOptions(d, pricing))

(***************************************************************************)
(* The state machine: one call of calculate_all_bike_costs on one input.   *)
(***************************************************************************)
\* the durations handed to the calculator, whole seconds over 60
Durations == { DurationMin(s) : s \in (0 - MaxNegativeSec) .. MaxDurationSec }

\* nothing is displayed
NoDisplay ==
    /\ all_options = << >>
    /\ cheaper_count = 0
    /\ cheapest_option = None
    /\ cheapest_providers = {}
    /\ recommended_mode = None

\* no call has been recorded
NoHistory ==
    /\ calls = 0
    /\ first_results = << >>
    /\ earlier = None

\* lines 32-40: the session state of a new session, the map not yet clicked
NoSession ==
    /\ origin = None
    /\ destination = None
    /\ last_clicked = None
    /\ results = None
    /\ map_data = None

TypeOK ==
    /\ pc \in {"call", "returned", "raised", "display", "displayed"}
    /\ provider \in DOMAIN BIKE_PROVIDERS
    /\ duration_minutes \in Durations

\* the program as shipped
Init ==
    /\ BIKE_PROVIDERS = ShippedProviders
    /\ duration_minutes \in Durations
    /\ provider \in DOMAIN BIKE_PROVIDERS
    /\ pc = "call"
    /\ options = << >>
    /\ error = None
    /\ NoDisplay
    /\ NoHistory
    /\ NoSession

\* the program under the re-tuned table
InitTuned ==
    /\ BIKE_PROVIDERS = TunedProviders
    /\ duration_minutes \in Durations
    /\ provider \in DOMAIN BIKE_PROVIDERS
    /\ pc = "call"
    /\ options = << >>
    /\ error = None
    /\ NoDisplay
    /\ NoHistory
    /\ NoSession

\* the call ends with outcome r: it returns its list or raises
Ends(r) ==
    /\ pc' = IF IsNone(r.error) THEN "returned" ELSE "raised"
    /\ error' = r.error
    /\ options' = r.options

\* options = calculate_all_bike_costs(bike['duration_min'], provider)
Call ==
    /\ pc = "call"
    /\ Ends(calculate_all_bike_costs(duration_minutes, provider))
    /\ UNCHANGED << BIKE_PROVIDERS, duration_minutes, provider, displayVars,
                    historyVars, sessionVars >>

Next == Call

Spec == Init /\ [][Next]_vars

SpecTuned == InitTuned /\ [][Next]_vars

(***************************************************************************)
(* The results display, src/app.py:485-651: the quotes of all providers    *)
(* for the cycling time of the trip, the cheapest of them and the          *)
(* recommendation.  Amounts are in euro cents.                             *)
(***************************************************************************)
\* src/config.py:6, METRO_COST = 2.50
METRO_COST == 250

\* line 602: the tolerance of the tie, 0.01
Tolerance == 1

\* line 540: BIKE_PROVIDERS.keys()
ProviderKeys == IF BIKE_PROVIDERS = ShippedProviders THEN ShippedKeys ELSE TunedKeys

\* lines 543-546: {**option, "provider": provider}
WithProvider(option, prov) ==
    [name |-> option.name, cost |-> option.cost, remaining |-> option.remaining,
     remaining_type |-> option.remaining_type, provider |-> prov]

\* lines 541-546: the quotes of the provider at key i, each with the
\* provider's name added
WithProviders(r, prov) ==
    [error |-> r.error,
     options |-> [j \in 1 .. Len(r.options) |-> WithProvider(r.options[j], prov)]]

\* lines 541-542: the call about the provider at key i
ProviderOptions(d, i) ==
    WithProviders(calculate_all_bike_costs(d, ProviderKeys[i]), ProviderKeys[i])

\* the concatenation of the lists lists[i], lists[i + 1], ...
RECURSIVE Extend(_, _)
Extend(lists, i) ==
    IF i > Len(lists) THEN << >> ELSE lists[i].options \o Extend(lists, i + 1)

\* lines 538-546: the loop over the providers; the first exception of the
\* calculator ends the display
Collect(lists) ==
    LET failed == { i \in DOMAIN lists : ~ IsNone(lists[i].error) }
    IN  IF failed # {}
        THEN Raises(Val(lists[CHOOSE i \in failed : \A k \in failed : i <= k].error))
        ELSE Returns(Extend(lists, 1))

\* lines 538-546
AllOptions(d) == Collect([i \in DOMAIN ProviderKeys |-> ProviderOptions(d, i)])

\* line 550: opt['cost'] < METRO_COST
Undercuts(opt) == RatLt(opt.cost, FromInt(METRO_COST))

\* lines 549-550
CheaperCount(opts) ==
    Cardinality({ j \in DOMAIN opts :
                    opts[j].provider # "Velib'" /\ Undercuts(opts[j]) })

\* line 598: min(all_options, key=lambda x: x['cost']) returns the first
\* quote that no other quote undercuts
CheapestOption(opts) ==
    opts[CHOOSE j \in DOMAIN opts :
            /\ \A k \in 1 .. (j - 1) : RatLt(opts[j].cost, opts[k].cost)
            /\ \A k \in (j + 1) .. Len(opts) : RatLeq(opts[j].cost, opts[k].cost)]

\* Ties with <= in place of <
Ties_Inclusive(opt, cost) ==
    RatLeq(RatAbs(RatSub(opt.cost, cost)), FromInt(Tolerance))

\* line 602: abs(opt['cost'] - min_cost) < 0.01
Ties(opt, cost) == RatLt(RatAbs(RatSub(opt.cost, cost)), FromInt(Tolerance))

\* line 602
CheapestProviders(opts, cost) ==
    { opts[j].provider : j \in { k \in DOMAIN opts : Ties(opts[k], cost) } }

\* the minutes of the passes of the table
PassMinutes ==
    UNION { { BIKE_PROVIDERS[p].passes[i].minutes :
                i \in DOMAIN BIKE_PROVIDERS[p].passes } : p \in DOMAIN BIKE_PROVIDERS }

\* line 638: 'min pass' in opt['name']
IsMinPass(name) == \E m \in PassMinutes : name = ToString(m) \o " min pass"

\* line 638: int(opt['name'].split()[0])
NameMinutes(name) == CHOOSE m \in PassMinutes : name = ToString(m) \o " min pass"

\* lines 636-639: the quotes the recommendation looks at
IsShortTerm(opt) ==
    /\ opt.provider # "Velib'"
    /\ \/ opt.name = "Per-minute"
       \/ IsMinPass(opt.name) /\ NameMinutes(opt.name) < 60

\* ShortTermCheaper with the comparison to the metro fare inverted
ShortTermCheaper_Inverted(opts) ==
    \E j \in DOMAIN opts : IsShortTerm(opts[j]) /\ ~ Undercuts(opts[j])

\* lines 633-640
ShortTermCheaper(opts) ==
    \E j \in DOMAIN opts : IsShortTerm(opts[j]) /\ Undercuts(opts[j])

\* lines 642-651
RecommendedMode(opts) == IF ShortTermCheaper(opts) THEN "bike" ELSE "metro"

\* the display of a trip of one duration, under the shipped table
InitDisplay ==
    /\ BIKE_PROVIDERS = ShippedProviders
    /\ duration_minutes \in Durations
    /\ provider = ProviderKeys[1]
    /\ pc = "display"
    /\ options = << >>
    /\ error = None
    /\ NoDisplay
    /\ NoHistory
    /\ NoSession

\* and under the re-tuned table
InitDisplayTuned ==
    /\ BIKE_PROVIDERS = TunedProviders
    /\ duration_minutes \in Durations
    /\ provider = ProviderKeys[1]
    /\ pc = "display"
    /\ options = << >>
    /\ error = None
    /\ NoDisplay
    /\ NoHistory
    /\ NoSession

\* the exception the display of the collected quotes r ends in, or None:
\* that of the calculator, or the ValueError of min() of an empty list
Failure(r) ==
    IF ~ IsNone(r.error) THEN r.error
    ELSE IF r.options = << >> THEN Some("ValueError")
    ELSE None

\* lines 548-651: what is displayed for the collected quotes r
Shows(r) ==
    IF ~ IsNone(Failure(r))
    THEN /\ pc' = "raised"
         /\ error' = Failure(r)
         /\ UNCHANGED displayVars
    ELSE /\ pc' = "displayed"
         /\ error' = error
         /\ all_options' = r.options
         /\ cheaper_count' = CheaperCount(all_options')
         /\ cheapest_option' = Some(CheapestOption(all_options'))
         /\ cheapest_providers'
                = CheapestProviders(all_options', Val(cheapest_option').cost)
         /\ recommended_mode' = Some(RecommendedMode(all_options'))

\* lines 538-651
Display ==
    /\ pc = "display"
    /\ Shows(AllOptions(duration_minutes))
    /\ UNCHANGED << BIKE_PROVIDERS, duration_minutes, provider, options,
                    historyVars, sessionVars >>

NextDisplay == Display

SpecDisplay == InitDisplay /\ [][NextDisplay]_vars

SpecDisplayTuned == InitDisplayTuned /\ [][NextDisplay]_vars

(***************************************************************************)
(* One process calling calculate_all_bike_costs again and again, as the    *)
(* display does on every rerun of the script (src/app.py:538-546).         *)
(***************************************************************************)
\* how many calls one process makes
MaxCalls == 3

\* the durations of those calls are the multiples of 23 minutes up to
\* MaxCallSteps of them: 0, 23, 46 and 69 minutes
MaxCallSteps == 3
CallDurations == { FromInt(23 * k) : k \in 0 .. MaxCallSteps }

\* ConfigAfterCall using up one ride of every multi pass of the provider
ConfigAfterCall_ConsumesTrip(prov) ==
    [p \in DOMAIN BIKE_PROVIDERS |->
        IF p # prov THEN BIKE_PROVIDERS[p]
        ELSE [BIKE_PROVIDERS[p] EXCEPT !.passes =
                 [i \in DOMAIN @ |->
                     IF HasKey(@[i], "trips")
                     THEN [@[i] EXCEPT !.trips = @ - 1] ELSE @[i]]]]

\* lines 63-131: the table after a call about provider prov; the call reads
\* BIKE_PROVIDERS[provider] and its passes, builds its quotes as new
\* dictionaries and assigns to no key of the table
ConfigAfterCall(prov) == BIKE_PROVIDERS

\* the process starts with the shipped table and no call made
InitCalls ==
    /\ BIKE_PROVIDERS = ShippedProviders
    /\ duration_minutes = FromInt(0)
    /\ provider = ShippedKeys[1]
    /\ pc = "call"
    /\ options = << >>
    /\ error = None
    /\ NoDisplay
    /\ NoHistory
    /\ NoSession

\* one more call, of duration d about provider prov
CallAgain(d, prov) ==
    /\ calls < MaxCalls
    /\ Ends(calculate_all_bike_costs(d, prov))
    /\ first_results' = IF << d, prov >> \in DOMAIN first_results
                         THEN first_results
                         ELSE (<< d, prov >> :> [error |-> error', options |-> options'])
                              @@ first_results
    /\ duration_minutes' = d
    /\ provider' = prov
    /\ calls' = calls + 1
    /\ earlier' = earlier
    /\ BIKE_PROVIDERS' = ConfigAfterCall(prov)
    /\ UNCHANGED << displayVars, sessionVars >>

NextCalls == \E d \in CallDurations, prov \in DOMAIN BIKE_PROVIDERS : CallAgain(d, prov)

SpecCalls == InitCalls /\ [][NextCalls]_vars

(***************************************************************************)
(* Two trips with one provider, the second longer than the first.          *)
(***************************************************************************)
\* how much longer the second trip is, in seconds: a second, a minute, or
\* MaxGapSec (an overage block)
MaxGapSec == 1800
Gaps == {1, 60, MaxGapSec}

\* the same provider is asked again about a trip gap seconds longer
CallLater(gap) ==
    /\ pc = "returned"
    /\ IsNone(earlier)
    /\ (duration_minutes.num * 60) \div duration_minutes.den + gap <= MaxDurationSec
    /\ duration_minutes' = RatAdd(duration_minutes, DurationMin(gap))
    /\ Ends(calculate_all_bike_costs(duration_minutes', provider))
    /\ earlier' = Some([duration_minutes |-> duration_minutes, options |-> options])
    /\ UNCHANGED << BIKE_PROVIDERS, provider, displayVars, calls, first_results,
                    sessionVars >>

NextLater == Call \/ \E gap \in Gaps : CallLater(gap)

SpecLater == Init /\ [][NextLater]_vars

(***************************************************************************)
(* One browser session, src/app.py:32-40 and 340-482.  Every event (a map  *)
(* click, a button) runs the script from the top; st.rerun() ends the run  *)
(* and starts another.  An action is an event with all the runs it causes. *)
(***************************************************************************)
\* the points a click or an address search can yield are 1 .. MaxPoints
MaxPoints == 3
Points == 1 .. MaxPoints

\* st.session_state and the value of the map component
Session ==
    [origin |-> origin, destination |-> destination,
     last_clicked |-> last_clicked, results |-> results, map_data |-> map_data]

\* lines 388-405: the markers of the map handed to st_folium
Markers(s) == << s.origin, s.destination >>

\* lines 408-409, map_data = st_folium(m, ..., key="selection_map"): what
\* the component reports in a run that follows a run with the markers
\* before.  Drawn again with the same markers it reports the click it last
\* received; drawn with other markers it reports that click still, or none
\* if the component was mounted anew.
st_folium(s, before) ==
    IF Markers(s) = before THEN { s }
    ELSE { s, [s EXCEPT !.map_data = None] }

\* what one run of the script leaves: the session state, and whether the
\* run ended in st.rerun()
Done(s) == [state |-> s, rerun |-> FALSE]
Rerun(s) == [state |-> s, rerun |-> TRUE]

\* the events of a run: the button pressed, with what the geocoder found
NoEvent == [kind |-> "none"]
Pressed(kind) == [kind |-> kind]
Searched(kind, coords) == [kind |-> kind, coords |-> coords]

\* HandleClick overwriting the origin with every new click
HandleClick_Overwrites(s) ==
    IF s.map_data # None /\ s.map_data # s.last_clicked
    THEN Rerun([s EXCEPT !.last_clicked = s.map_data, !.origin = s.map_data])
    ELSE Done(s)

\* lines 412-426: the map click handler
HandleClick(s) ==
    IF s.map_data # None /\ s.map_data # s.last_clicked
    THEN LET t == [s EXCEPT !.last_clicked = s.map_data]
         IN  IF t.origin = None THEN Rerun([t EXCEPT !.origin = s.map_data])
             ELSE IF t.destination = None
                 THEN Rerun([t EXCEPT !.destination = s.map_data])
             ELSE Done(t)
    ELSE Done(s)

\* lines 429-434: the Reset button
ResetSelection(s) ==
    Rerun([s EXCEPT !.origin = None, !.destination = None,
                    !.last_clicked = None, !.results = None])

\* lines 463-482: the Compare Routes button; the journeys are those of the
\* selected origin and destination
CompareRoutes(s) ==
    Done([s EXCEPT !.results = Some([from_coords |-> Val(s.origin),
                                     to_coords |-> Val(s.destination)])])

\* lines 346-482: one run of the script on event ev
ScriptRun(s, ev) ==
    IF ev.kind = "set_origin" /\ ev.coords # None
        THEN Rerun([s EXCEPT !.origin = ev.coords])
    ELSE IF ev.kind = "set_destination" /\ ev.coords # None
        THEN Rerun([s EXCEPT !.destination = ev.coords])
    ELSE LET h == HandleClick(s)
         IN  IF h.rerun THEN h
             ELSE IF ev.kind = "reset" THEN ResetSelection(h.state)
             ELSE IF ev.kind = "compare" THEN CompareRoutes(h.state)
             ELSE h

\* the session states an event can leave once no run ends in st.rerun()
RECURSIVE Outcomes(_, _)
Outcomes(s, ev) ==
    LET r == ScriptRun(s, ev)
    IN  IF ~ r.rerun THEN { r.state }
        ELSE UNION { Outcomes(t, NoEvent) : t \in st_folium(r.state, Markers(s)) }

\* the session moves to state s
Becomes(s) ==
    /\ origin' = s.origin
    /\ destination' = s.destination
    /\ last_clicked' = s.last_clicked
    /\ results' = s.results
    /\ map_data' = s.map_data
    /\ UNCHANGED << BIKE_PROVIDERS, calcVars, displayVars, historyVars >>

\* a new session
InitSession ==
    /\ BIKE_PROVIDERS = ShippedProviders
    /\ duration_minutes = FromInt(0)
    /\ provider = ShippedKeys[1]
    /\ pc = "call"
    /\ options = << >>
    /\ error = None
    /\ NoDisplay
    /\ NoHistory
    /\ NoSession

\* the user clicks the map at point p
MapClick(p) ==
    \E s \in Outcomes([Session EXCEPT !.map_data = Some(p)], NoEvent) : Becomes(s)

\* the user presses Set Origin; the geocoder finds coords, or nothing
SetOrigin(coords) ==
    \E s \in Outcomes(Session, Searched("set_origin", coords)) : Becomes(s)

\* the user presses Set Destination
SetDestination(coords) ==
    \E s \in Outcomes(Session, Searched("set_destination", coords)) : Becomes(s)

\* the user presses Reset Selection
Reset ==
    \E s \in Outcomes(Session, Pressed("reset")) : Becomes(s)

\* the user presses Compare Routes, enabled when both ends are selected
Compare ==
    /\ origin # None /\ destination # None
    /\ \E s \in Outcomes(Session, Pressed("compare")) : Becomes(s)

NextSession ==
    \/ \E p \in Points : MapClick(p)
    \/ \E coords \in {None} \cup { Some(p) : p \in Points } : SetOrigin(coords)
    \/ \E coords \in {None} \cup { Some(p) : p \in Points } : SetDestination(coords)
    \/ Reset
    \/ Compare

SpecSession == InitSession /\ [][NextSession]_vars

(***************************************************************************)
(* Vocabulary of the properties.                                           *)
(***************************************************************************)
\* the trip duration of the call in whole seconds
DurationSec == (duration_minutes.num * 60) \div duration_minutes.den

\* the tariff the call is about
Tariff == BIKE_PROVIDERS[provider]

\* the providers whose passes are time bundles
TimeProviders == {"Voi", "Dott", "Lime"}

\* the call is over and its duration was not negative
Returned == pc = "returned"
ValidTrip == DurationSec >= 0

\* the positions of the quotes named n in the returned list
QuotesNamed(n) == { j \in DOMAIN options : options[j].name = n }

\* the name the quote of a time bundle carries
TimeBundleName(b) == ToString(b.minutes) \o " min pass"

\* the overage of the trip beyond the cap of bundle b, in seconds, 0 if none
OverageSec(b) ==
    IF DurationSec > 60 * b.minutes THEN DurationSec - 60 * b.minutes ELSE 0

\* the size of the overage block of a ride bundle, in minutes: the bundle
\* states its overage price under the key overage_per_30min
BlockMinutes(b) == 30

\* the least whole number of blocks that cover the overage of bundle b
BlocksDue(b) ==
    CHOOSE n \in 0 .. (MaxDurationSec \div (60 * BlockMinutes(b))) + 1 :
        /\ n * 60 * BlockMinutes(b) >= OverageSec(b)
        /\ n > 0 => (n - 1) * 60 * BlockMinutes(b) < OverageSec(b)

(***************************************************************************)
(* C1.  For every pass of Voi, Dott and Lime and every duration d >= 0 the *)
(* call returns a quote for the pass: if d is within the pass's minutes    *)
(* its cost is cost * d / minutes and minutes - d remain; if d exceeds     *)
(* them its cost is cost + (d - minutes) * per_minute and 0 remain.        *)
(***************************************************************************)
C1_TimeBundleQuote ==
    (Returned /\ ValidTrip /\ provider \in TimeProviders) =>
        \A i \in DOMAIN Tariff.passes :
            LET b == Tariff.passes[i] IN
            \E j \in QuotesNamed(TimeBundleName(b)) :
                IF DurationSec <= 60 * b.minutes
                THEN /\ options[j].cost = Rat(b.cost * DurationSec, 60 * b.minutes)
                     /\ options[j].remaining
                            = Some(Rat(60 * b.minutes - DurationSec, 60))
                ELSE /\ options[j].cost
                            = Rat(60 * b.cost + (DurationSec - 60 * b.minutes)
                                                * Val(Tariff.per_minute), 60)
                     /\ options[j].remaining = Some(FromInt(0))

\* Voi, 45 minutes: the 30 min pass is exceeded (2.99 + 15 * 0.19 = 5.84,
\* nothing remains), the 60 min pass is prorated (5.49 * 45/60 = 4.1175,
\* 15 minutes remain)
C1_Witness ==
    /\ Returned /\ provider = "Voi" /\ duration_minutes = FromInt(45)
    /\ \E j \in QuotesNamed("30 min pass") :
           /\ options[j].cost = FromInt(584)
           /\ options[j].remaining = Some(FromInt(0))
    /\ \E j \in QuotesNamed("60 min pass") :
           /\ options[j].cost = Rat(1647, 4)
           /\ options[j].remaining = Some(FromInt(15))

(***************************************************************************)
(* C2.  For every tariff with a per-minute rate and every duration d >= 0  *)
(* the call returns exactly one quote named "Per-minute"; its cost is      *)
(* unlock + d * per_minute and it has no remaining allowance.  For a       *)
(* tariff without a per-minute rate no quote is named "Per-minute".        *)
(***************************************************************************)
C2_PerMinuteQuote ==
    (pc # "call" /\ ValidTrip) =>
        IF ~ IsNone(Tariff.per_minute)
        THEN /\ Returned
             /\ Cardinality(QuotesNamed("Per-minute")) = 1
             /\ \A j \in QuotesNamed("Per-minute") :
                    /\ options[j].cost
                         = Rat(60 * Tariff.unlock
                               + DurationSec * Val(Tariff.per_minute), 60)
                    /\ options[j].remaining = None
                    /\ options[j].remaining_type = None
        ELSE QuotesNamed("Per-minute") = {}

\* Voi, 20 minutes: 1.00 + 20 * 0.19 = 4.80
C2_Witness ==
    /\ Returned /\ provider = "Voi" /\ duration_minutes = FromInt(20)
    /\ \E j \in QuotesNamed("Per-minute") :
           /\ options[j].cost = FromInt(480)
           /\ options[j].remaining = None

(***************************************************************************)
(* C3.  For every single-ride ticket and every duration d >= 0 the quote   *)
(* of the ticket costs cost + overage blocks * overage_per_30min and       *)
(* leaves 0 rides.                                                         *)
(***************************************************************************)
C3_SingleRideQuote ==
    (Returned /\ ValidTrip /\ provider = "Velib'") =>
        \A i \in DOMAIN Tariff.passes :
            LET b == Tariff.passes[i] IN
            b.type = "single" =>
                \E j \in QuotesNamed(b.name) :
                    /\ options[j].cost
                         = FromInt(b.cost + BlocksDue(b) * b.overage_per_30min)
                    /\ options[j].remaining = Some(FromInt(0))
                    /\ options[j].remaining_type = Some("trips")

\* Ticket V, 50 minutes: 5 minutes of overage, 1 block, 3.00 + 2.00 = 5.00
C3_Witness ==
    /\ Returned /\ provider = "Velib'" /\ duration_minutes = FromInt(50)
    /\ \E j \in QuotesNamed("Ticket V") :
           /\ options[j].cost = FromInt(500)
           /\ options[j].remaining = Some(FromInt(0))

(***************************************************************************)
(* C4.  For every multi-ride pass and every duration d >= 0 the quote of   *)
(* the pass costs cost / trips + overage blocks * overage_per_30min and    *)
(* leaves trips - 1 rides.                                                 *)
(***************************************************************************)
C4_MultiRideQuote ==
    (Returned /\ ValidTrip /\ provider = "Velib'") =>
        \A i \in DOMAIN Tariff.passes :
            LET b == Tariff.passes[i] IN
            b.type = "multi" =>
                \E j \in QuotesNamed(b.name) :
                    /\ options[j].cost
                         = Rat(b.cost + b.trips * BlocksDue(b) * b.overage_per_30min,
                               b.trips)
                    /\ options[j].remaining = Some(FromInt(b.trips - 1))
                    /\ options[j].remaining_type = Some("trips")

\* 24h Pass, 45 minutes: no overage, 10.00 / 5 = 2.00, 4 rides remain
C4_Witness ==
    /\ Returned /\ provider = "Velib'" /\ duration_minutes = FromInt(45)
    /\ \E j \in QuotesNamed("24h Pass") :
           /\ options[j].cost = FromInt(200)
           /\ options[j].remaining = Some(FromInt(4))

(***************************************************************************)
(* C5.  For every ride bundle and every duration d the overage blocks      *)
(* charged are ceil(max(0, d - minutes) / 30), 30 being the block the      *)
(* bundle's overage price is stated for: the least whole number of blocks  *)
(* covering the overage, so that any overage above 0, however small,       *)
(* counts as a whole block.                                                *)
(***************************************************************************)
\* what the quote of ride bundle b costs before overage
RideBase(b) == IF b.type = "single" THEN FromInt(b.cost) ELSE Rat(b.cost, b.trips)

\* the overage blocks quote q charges for ride bundle b
BlocksCharged(q, b) ==
    RatDiv(RatSub(q.cost, RideBase(b)), FromInt(b.overage_per_30min))

C6_BoundaryFits ==
    Returned =>
        \A i \in DOMAIN Tariff.passes :
            LET b == Tariff.passes[i] IN
            DurationSec = 60 * b.minutes =>
                IF HasKey(b, "type")
                THEN \E j \in QuotesNamed(b.name) :
                         /\ options[j].cost = RideBase(b)
                         /\ BlocksCharged(options[j], b) = FromInt(0)
                ELSE \E j \in QuotesNamed(TimeBundleName(b)) :
                         /\ options[j].cost = FromInt(b.cost)
                         /\ options[j].remaining = Some(FromInt(0))

\* Velib', 45 minutes: Ticket V costs 3.00 and the 24h Pass 2.00
C6_Witness ==
    /\ Returned /\ provider = "Velib'" /\ duration_minutes = FromInt(45)
    /\ \E j \in QuotesNamed("Ticket V") : options[j].cost = FromInt(300)
    /\ \E j \in QuotesNamed("24h Pass") : options[j].cost = FromInt(200)

(***************************************************************************)
(* C7.  For every tariff and every duration d >= 0 the call returns        *)
(* exactly (1 if the tariff has a per-minute rate, else 0) + (number of    *)
(* passes) quotes, the per-minute quote first and then one quote per pass  *)
(* in the order of the table; a tariff with no per-minute rate and no      *)
(* passes yields the empty list.                                           *)
(***************************************************************************)
\* 1 if the tariff has a per-minute rate, else 0
PerMinutePresence == IF IsNone(Tariff.per_minute) THEN 0 ELSE 1

\* quote q carries the label of bundle b
QuoteIsOf(q, b) ==
    \/ q.name = TimeBundleName(b)
    \/ HasKey(b, "name") /\ q.name = b.name

C7_QuoteCountAndOrder ==
    (pc # "call" /\ ValidTrip) =>
        /\ Returned
        /\ Len(options) = PerMinutePresence + Len(Tariff.passes)
        /\ PerMinutePresence = 1 => options[1].name = "Per-minute"
        /\ \A i \in DOMAIN Tariff.passes :
               QuoteIsOf(options[PerMinutePresence + i], Tariff.passes[i])

(***************************************************************************)
(* C8.  For every tariff with non-negative rates and prices and every      *)
(* duration d >= 0, every quote the call returns has cost >= 0.            *)
(***************************************************************************)
C8_CostNonNegative ==
    (pc # "call" /\ ValidTrip) =>
        \A j \in DOMAIN options : options[j].cost.num >= 0

\* Voi, 0 minutes: the per-minute quote costs the unlock fee, every pass 0
C8_Witness ==
    /\ Returned /\ provider = "Voi" /\ duration_minutes = FromInt(0)
    /\ Len(options) = 6
    /\ options[1].cost = FromInt(100)
    /\ \A j \in 2 .. 6 : options[j].cost = FromInt(0)

(***************************************************************************)
(* C9.  A call with a negative duration fails fast with an InvalidInput    *)
(* error and returns no quote, in particular none with a negative cost.    *)
(***************************************************************************)
C9_NegativeDurationRejected ==
    (pc # "call" /\ DurationSec < 0) =>
        /\ pc = "raised"
        /\ error = Some("InvalidInput")
        /\ options = << >>

(***************************************************************************)
(* C10.  For every well-formed tariff and every duration d >= 0 the call   *)
(* completes and returns its quotes; it never ends in an exception.        *)
(***************************************************************************)
C10_NeverRaises ==
    (pc # "call" /\ ValidTrip) => (pc = "returned" /\ error = None)

(***************************************************************************)
(* Vocabulary of the properties of the display.                            *)
(***************************************************************************)
Displayed == pc = "displayed"

\* quote opt costs strictly less than the metro fare
CheaperThanMetro(opt) == opt.cost.num < METRO_COST * opt.cost.den

\* the bundles of its provider whose label quote opt carries
BundlesOf(opt) ==
    { b \in { BIKE_PROVIDERS[opt.provider].passes[i] :
                i \in DOMAIN BIKE_PROVIDERS[opt.provider].passes } :
        QuoteIsOf(opt, b) }

\* quote opt is not bundle-locked: it is the per-minute quote, or the quote
\* of a bundle whose minute cap is below 60
NonBundleLocked(opt) ==
    \/ opt.name = "Per-minute"
    \/ \E b \in BundlesOf(opt) : b.minutes < 60

(***************************************************************************)
(* C11.  E-Bike is recommended only when a quote that is not bundle-locked *)
(* (the per-minute quote, or the quote of a bundle whose minute cap is     *)
(* below 60) costs strictly less than the metro fare; when no such quote   *)
(* does, Metro is recommended, whatever the quotes of the bundles of 60    *)
(* minutes or more cost.                                                   *)
(***************************************************************************)
C11_BikeOnlyIfShortTermCheaper ==
    Displayed =>
        /\ recommended_mode \in {Some("bike"), Some("metro")}
        /\ recommended_mode = Some("bike") =>
               \E j \in DOMAIN all_options :
                   NonBundleLocked(all_options[j]) /\ CheaperThanMetro(all_options[j])

\* 5 minutes: the per-minute quote of Voi costs 1.95 and E-Bike is recommended
C11_Witness ==
    /\ Displayed /\ duration_minutes = FromInt(5)
    /\ recommended_mode = Some("bike")
    /\ \E j \in DOMAIN all_options :
           /\ all_options[j].provider = "Voi" /\ all_options[j].name = "Per-minute"
           /\ all_options[j].cost = FromInt(195)

(***************************************************************************)
(* C12.  The quotes of all providers are collected into one list; the      *)
(* cheapest option is a quote of that list that no quote undercuts; the    *)
(* cheapest providers are exactly the providers with a quote less than     *)
(* 0.01 above that minimum, a set that is not empty and contains the       *)
(* provider of the cheapest option.                                        *)
(***************************************************************************)
\* how many quotes the tariff of provider p yields
QuoteCount(p) ==
    (IF IsNone(BIKE_PROVIDERS[p].per_minute) THEN 0 ELSE 1)
    + Len(BIKE_PROVIDERS[p].passes)

RECURSIVE SumQuoteCounts(_)
SumQuoteCounts(ps) ==
    IF ps = {} THEN 0
    ELSE LET p == CHOOSE q \in ps : TRUE
         IN  QuoteCount(p) + SumQuoteCounts(ps \ {p})

C12_CheapestProviders ==
    Displayed =>
        LET best == Val(cheapest_option) IN
        /\ Len(all_options) = SumQuoteCounts(DOMAIN BIKE_PROVIDERS)
        /\ \A p \in DOMAIN BIKE_PROVIDERS :
               Cardinality({ j \in DOMAIN all_options : all_options[j].provider = p })
                   = QuoteCount(p)
        /\ \E j \in DOMAIN all_options : all_options[j] = best
        /\ \A j \in DOMAIN all_options : RatLeq(best.cost, all_options[j].cost)
        /\ cheapest_providers
             = { p \in DOMAIN BIKE_PROVIDERS :
                   \E j \in DOMAIN all_options :
                       /\ all_options[j].provider = p
                       /\ RatLt(RatSub(all_options[j].cost, best.cost), FromInt(1)) }
        /\ cheapest_providers # {}
        /\ best.provider \in cheapest_providers

\* 30 seconds: the 400 min pass of Voi is the cheapest option (0.0399875);
\* the 400 min pass of Lime costs exactly 0.01 more and Lime is not among
\* the cheapest providers
C12_Witness ==
    /\ Displayed /\ DurationSec = 30
    /\ Val(cheapest_option).provider = "Voi"
    /\ Val(cheapest_option).name = "400 min pass"
    /\ \E j \in DOMAIN all_options :
           /\ all_options[j].provider = "Lime"
           /\ RatSub(all_options[j].cost, Val(cheapest_option).cost) = FromInt(1)
    /\ cheapest_providers = {"Voi"}

(***************************************************************************)
(* C13.  The quotes of a tariff depend on the tariff's contents and the    *)
(* duration only, never on the provider's name: two providers with the     *)
(* same tariff get the same quotes, and a ride bundle is quoted by the     *)
(* ride-bundle rules (in rides) whichever provider it belongs to.          *)
(***************************************************************************)
\* a displayed quote without its provider
Anonymous(opt) ==
    [name |-> opt.name, cost |-> opt.cost, remaining |-> opt.remaining,
     remaining_type |-> opt.remaining_type]

\* the quotes displayed for provider p, in their order
QuotesOf(p) ==
    LET mine == SelectSeq(all_options, LAMBDA opt : opt.provider = p)
    IN  [j \in DOMAIN mine |-> Anonymous(mine[j])]

C13_QuotesIgnoreProviderName ==
    (Displayed /\ ValidTrip) =>
        /\ \A p, q \in DOMAIN BIKE_PROVIDERS :
               BIKE_PROVIDERS[p] = BIKE_PROVIDERS[q] => QuotesOf(p) = QuotesOf(q)
        /\ \A j \in DOMAIN all_options :
               (\E b \in BundlesOf(all_options[j]) : HasKey(b, "type"))
                   => all_options[j].remaining_type = Some("trips")

(***************************************************************************)
(* C14.  A multi-ride pass that includes exactly one ride is quoted as the *)
(* single-ride formula quotes a ticket of the same price, minutes and      *)
(* overage price: cost + overage blocks * overage_per_30min, 0 rides left. *)
(***************************************************************************)
\* the multi-ride passes of the tariff that include one ride
OneRidePasses ==
    { b \in { Tariff.passes[i] : i \in DOMAIN Tariff.passes } :
        HasKey(b, "type") /\ b.type = "multi" /\ b.trips = 1 }

C14_OneRidePassAsSingle ==
    (Returned /\ ValidTrip /\ provider = "Velib'") =>
        \A b \in OneRidePasses :
            \E j \in QuotesNamed(b.name) :
                /\ options[j].cost.den = 1
                /\ options[j].cost.num = b.cost + BlocksDue(b) * b.overage_per_30min
                /\ options[j].remaining = Some(FromInt(0))
                /\ options[j].remaining_type = Some("trips")

\* Day Ticket (one ride for 3.00), 80 minutes: 35 minutes of overage are 2
\* blocks, 3.00 + 2 * 2.00 = 7.00, as Ticket V
C14_Witness ==
    /\ Returned /\ provider = "Velib'" /\ duration_minutes = FromInt(80)
    /\ \E b \in OneRidePasses : b.name = "Day Ticket"
    /\ \E j \in QuotesNamed("Day Ticket") :
           /\ options[j].cost = FromInt(700)
           /\ options[j].remaining = Some(FromInt(0))
           /\ \E k \in QuotesNamed("Ticket V") :
                  /\ options[k].cost = options[j].cost
                  /\ options[k].remaining = options[j].remaining

(***************************************************************************)
(* C15.  Every quote carries one allowance kind, that of its source: the   *)
(* per-minute quote has none and no remaining allowance, the quote of a    *)
(* time bundle has kind minutes and a remaining minute count, the quote of *)
(* a ride bundle has kind trips and a remaining whole number of rides.     *)
(***************************************************************************)
\* bundle b is a ride bundle (Ticket V, 24h Pass), not a time bundle
IsRideBundle(b) == HasKey(b, "type")

C15_AllowanceKindMatchesSource ==
    Displayed =>
        \A j \in DOMAIN all_options :
            LET opt == all_options[j] IN
            /\ opt.remaining_type \in {None, Some("minutes"), Some("trips")}
            /\ IsNone(opt.remaining_type) <=> IsNone(opt.remaining)
            /\ (opt.name = "Per-minute") <=> (BundlesOf(opt) = {})
            /\ opt.name = "Per-minute" => IsNone(opt.remaining_type)
            /\ \A b \in BundlesOf(opt) :
                   IF IsRideBundle(b)
                   THEN /\ opt.remaining_type = Some("trips")
                        /\ Val(opt.remaining).den = 1
                        /\ Val(opt.remaining).num >= 0
                   ELSE /\ opt.remaining_type = Some("minutes")
                        /\ ~ IsNone(opt.remaining)

\* 20 minutes: the per-minute quote of Voi has no allowance, its 30 min pass
\* leaves 10 minutes, the 24h Pass of Velib' leaves 4 rides
C15_Witness ==
    /\ Displayed /\ duration_minutes = FromInt(20)
    /\ \E j \in DOMAIN all_options :
           /\ all_options[j].provider = "Voi" /\ all_options[j].name = "Per-minute"
           /\ all_options[j].remaining = None
           /\ all_options[j].remaining_type = None
    /\ \E j \in DOMAIN all_options :
           /\ all_options[j].provider = "Voi" /\ all_options[j].name = "30 min pass"
           /\ all_options[j].remaining = Some(FromInt(10))
           /\ all_options[j].remaining_type = Some("minutes")
    /\ \E j \in DOMAIN all_options :
           /\ all_options[j].provider = "Velib'" /\ all_options[j].name = "24h Pass"
           /\ all_options[j].remaining = Some(FromInt(4))
           /\ all_options[j].remaining_type = Some("trips")

ClickSelects(p) ==
    /\ (origin = None /\ destination = None)
           => (origin' = Some(p) /\ destination' = None)
    /\ (origin # None /\ destination = None /\ last_clicked # Some(p))
           => (destination' = Some(p) /\ origin' = origin)
    /\ (origin # None /\ destination # None)
           => (origin' = origin /\ destination' = destination)
    /\ origin # None => origin' = origin
    /\ destination # None => destination' = destination

C17_ClicksFillSelection ==
    [][\A p \in Points : MapClick(p) => ClickSelects(p)]_vars

\* clicks at 1, 2 and 3 on a new session: the origin is 1, the destination
\* 2, and the click at 3 changed neither
C17_Witness ==
    /\ origin = Some(1) /\ destination = Some(2)
    /\ last_clicked = Some(3) /\ map_data = Some(3)
    /\ results = None

(***************************************************************************)
(* C18.  In every state of a session results are stored only if an origin  *)
(* and a destination are set: results are stored only by a step that       *)
(* starts with both set, Reset leaves origin, destination, last click and  *)
(* results all unset, and no other step unsets an origin or a destination. *)
(***************************************************************************)
\* results are stored only with a complete selection
ResultsNeedSelection == results # None => (origin # None /\ destination # None)

\* the selection is empty and nothing is stored
AllCleared ==
    /\ origin' = None /\ destination' = None
    /\ last_clicked' = None /\ results' = None

\* a step that unsets an origin or a destination
Unsets ==
    \/ origin # None /\ origin' = None
    \/ destination # None /\ destination' = None

BothQuoted ==
    /\ Returned /\ ~ IsNone(earlier)
    /\ Val(earlier).duration_minutes.num >= 0

C19_CostMonotone ==
    BothQuoted =>
        LET before == Val(earlier).options IN
        /\ Len(before) = Len(options)
        /\ \A j \in DOMAIN options :
               /\ before[j].name = options[j].name
               /\ RatLeq(before[j].cost, options[j].cost)
               /\ options[j].remaining_type = Some("minutes") =>
                      /\ RatLeq(Val(options[j].remaining), Val(before[j].remaining))
                      /\ \A q \in {before[j], options[j]} :
                             /\ RatLeq(FromInt(0), Val(q.remaining))
                             /\ \E i \in DOMAIN Tariff.passes :
                                    /\ QuoteIsOf(q, Tariff.passes[i])
                                    /\ RatLeq(Val(q.remaining),
                                              FromInt(Tariff.passes[i].minutes))

\* Voi, 29 min 59 s and then 30 min 59 s: the 30 min pass goes from the
\* prorated price, below 2.99, to 2.99 and 59 seconds at the per-minute
\* rate, with 1 second and then nothing remaining
C19_Witness ==
    /\ BothQuoted /\ provider = "Voi" /\ DurationSec = 30 * 60 + 59
    /\ Val(earlier).duration_minutes = DurationMin(30 * 60 - 1)
    /\ \E j \in QuotesNamed("30 min pass") :
           /\ RatLt(Val(earlier).options[j].cost, FromInt(299))
           /\ RatLt(FromInt(299), options[j].cost)
           /\ Val(earlier).options[j].remaining = Some(Rat(1, 60))
           /\ options[j].remaining = Some(FromInt(0))

====
